---- MODULE Spec2Model ----
(***************************************************************************)
(* Model of download_data_sst.py: the partitioned, resumable, concurrent   *)
(* retrieval pipeline (generate_date_ranges, retrieve_data,                *)
(* retrieve_missing_data, merge_netcdf_files_xarray, download_dataset).    *)
(***************************************************************************)
EXTENDS Integers, Sequences, FiniteSets, TLC

(***************************************************************************)
(* Program constants.                                                      *)
(***************************************************************************)
\* download_dataset(2021, 2021, "SST", 2): the call at the end of the script.
START_YEAR == 2021
END_YEAR == 2021
WORKERS == 2
HTTP_SUCCESS_CODE == 200
HTTP_ACCEPTED_CODE == 202

(***************************************************************************)
(* Bounds of the model.                                                    *)
(***************************************************************************)
\* generate_date_ranges is explored for all (start_year, end_year) within
\* YearSpan years of the year the script uses (2020, a leap year, included).
YearSpan == 2
\* Number of times the script is run on the same directory.
MaxRuns == 2

Years == (START_YEAR - YearSpan)..(START_YEAR + YearSpan)

(***************************************************************************)
(* datetime / timedelta arithmetic (proleptic Gregorian calendar).         *)
(***************************************************************************)
IsLeap(y) == (y % 4 = 0) /\ ((y % 100 # 0) \/ (y % 400 = 0))

DaysInMonth(y, m) ==
    IF m = 2 THEN (IF IsLeap(y) THEN 29 ELSE 28)
    ELSE IF m \in {4, 6, 9, 11} THEN 30 ELSE 31

DaysBeforeYear(y) ==
    (y - 1) * 365 + ((y - 1) \div 4) - ((y - 1) \div 100) + ((y - 1) \div 400)

RECURSIVE DaysBeforeMonth(_, _)
DaysBeforeMonth(y, m) ==
    IF m = 1 THEN 0 ELSE DaysBeforeMonth(y, m - 1) + DaysInMonth(y, m - 1)

\* datetime(y, m, d)
Date(y, m, d) == [year |-> y, month |-> m, day |-> d]

\* datetime.toordinal()
ToOrdinal(dt) == DaysBeforeYear(dt.year) + DaysBeforeMonth(dt.year, dt.month) + dt.day

\* datetime.fromordinal(n)
FromOrdinal(n) ==
    LET y == CHOOSE yy \in ((n \div 366) .. (n \div 365 + 1)) :
                 DaysBeforeYear(yy) < n /\ n <= DaysBeforeYear(yy + 1)
        r == n - DaysBeforeYear(y)
        m == CHOOSE mm \in 1..12 :
                 DaysBeforeMonth(y, mm) < r /\ r <= DaysBeforeMonth(y, mm) + DaysInMonth(y, mm)
    IN  Date(y, m, r - DaysBeforeMonth(y, m))

\* dt + timedelta(days=n)
AddDays(dt, n) == FromOrdinal(ToOrdinal(dt) + n)

\* (a - b).days
DiffDays(a, b) == ToOrdinal(a) - ToOrdinal(b)

\* a <= b on datetimes
DateLeq(a, b) == ToOrdinal(a) <= ToOrdinal(b)

\* decimal digits of a natural number, most significant first
RECURSIVE Digits(_)
Digits(n) == IF n < 10 THEN <<n>> ELSE Digits(n \div 10) \o <<n % 10>>

\* dt.strftime("%Y-%m-%d")
Strftime(dt) ==
    Digits(dt.year) \o <<"-", dt.month \div 10, dt.month % 10>>
                    \o <<"-", dt.day \div 10, dt.day % 10>>

(***************************************************************************)
(* generate_date_ranges                                                    *)
(***************************************************************************)
\* end of the month of start_date (lines 172-175)
EndOfMonth(start_date) ==
    IF start_date.month = 12
    THEN [start_date EXCEPT !.day = 31]
    ELSE AddDays([start_date EXCEPT !.day = 1, !.month = start_date.month + 1], -1)

\* part_size = days_in_month // 3 (lines 178-179)
PartSizeRoundedUp(start_date) ==
    (DiffDays(EndOfMonth(start_date), start_date) + 1 + 2) \div 3

PartSize(start_date) ==
    (DiffDays(EndOfMonth(start_date), start_date) + 1) \div 3

\* the three (start, end) string pairs appended for one month (lines 181-192)
MonthParts(start_date) ==
    LET end_of_month == EndOfMonth(start_date)
        part_size    == PartSize(start_date)
        end_part_1   == AddDays(start_date, part_size - 1)
        start_part_2 == AddDays(end_part_1, 1)
        end_part_2   == AddDays(start_part_2, part_size - 1)
        start_part_3 == AddDays(end_part_2, 1)
    IN  << <<Strftime(start_date), Strftime(end_part_1)>>,
           <<Strftime(start_part_2), Strftime(end_part_2)>>,
           <<Strftime(start_part_3), Strftime(end_of_month)>> >>

\* move to the next month (lines 195-198)
NextMonth(start_date) ==
    IF start_date.month = 12
    THEN [start_date EXCEPT !.year = start_date.year + 1, !.month = 1, !.day = 1]
    ELSE [start_date EXCEPT !.month = start_date.month + 1, !.day = 1]

\* end_date = datetime(end_year, 1, 31) (line 168)
RangeEndDec31(end_year) == Date(end_year, 12, 31)

RangeEnd(end_year) == Date(end_year, 1, 31)

\* the whole function: the while loop of lines 170-198 run to completion
RECURSIVE GenerateFrom(_, _, _)
GenerateFrom(start_date, end_date, acc) ==
    IF DateLeq(start_date, end_date)
    THEN GenerateFrom(NextMonth(start_date), end_date, acc \o MonthParts(start_date))
    ELSE acc

generate_date_ranges(start_year, end_year) ==
    GenerateFrom(Date(start_year, 1, 1), RangeEnd(end_year), <<>>)

VARIABLES
    g_start_year,   \* generate_date_ranges: argument start_year
    g_end_year,     \* generate_date_ranges: argument end_year
    g_cursor,       \* generate_date_ranges: local start_date
    g_ranges,       \* generate_date_ranges: local date_ranges
    g_pc,           \* generate_date_ranges: "loop" or "returned"
    run,            \* how many times the script has been started
    mpc,            \* position of the main thread in download_dataset
    date_ranges,    \* download_dataset: date_ranges
    output_files,   \* retrieve_missing_data: output_files
    submit_i,              \* retrieve_missing_data: index of the submit loop (line 153)
    futures,        \* retrieve_missing_data: futures, as interval indices
    task,           \* per interval: the retrieve_data call submitted for it
    completed,      \* interval indices in the order their tasks terminated
    exc,            \* the exception the main thread holds or has propagated
    files,          \* the directory data/partial: path -> file content
    files0,         \* the directory as it was when the current run started
    merged,         \* the file data/<filename>.nc
    printed         \* the token, search and order status lines the last step printed

gvars == <<g_start_year, g_end_year, g_cursor, g_ranges, g_pc>>

pvars == <<run, mpc, date_ranges, output_files, submit_i, futures, task, completed,
           exc, files, files0, merged, printed>>

vars == <<g_start_year, g_end_year, g_cursor, g_ranges, g_pc,
          run, mpc, date_ranges, output_files, submit_i, futures, task, completed,
          exc, files, files0, merged, printed>>

(***************************************************************************)
(* The file system and the remote service.                                 *)
(***************************************************************************)
\* a path at which there is no file
Absent == [exists |-> FALSE, complete |-> FALSE, payload |-> FALSE, time |-> "none", run |-> 0]
\* no response received yet
NoResponse == [status |-> 0, location |-> FALSE, body_status |-> "none", time |-> "none"]
\* no exception raised
NoException == [error |-> "none", interval |-> 0]
\* no merged file at data/<filename>.nc
NoMerged == [exists |-> FALSE, complete |-> FALSE, inputs |-> <<>>, run |-> 0]

\* output_dir = "data/partial" (line 207)
OUTPUT_DIR == "data/partial"

\* os.path.join(output_dir, f"{start_date}.nc") (lines 145, 154)
PartialPathByMonth(output_dir, start_date) ==
    <<output_dir, SubSeq(start_date, 1, Len(start_date) - 3) \o <<".nc">> >>

PartialPath(output_dir, start_date) == <<output_dir, start_date \o <<".nc">> >>

\* the partition of the script's call and its artifact paths
ScriptRanges == generate_date_ranges(START_YEAR, END_YEAR)
Intervals == 1..Len(ScriptRanges)
ScriptPaths == {PartialPath(OUTPUT_DIR, ScriptRanges[i][1]) : i \in Intervals}

\* os.path.exists(path) (lines 147, 155)
ExistsAndComplete(fs, path) == fs[path].exists /\ fs[path].complete

Exists(fs, path) == fs[path].exists

\* answers of POST /stac/search (lines 62-82): status code and kind of body
SearchResponses ==
    [status : {200, 500}, body : {"empty", "invalid", "nofeatures", "features"}]

\* the search answer lets retrieve_data go on (none of the returns of lines 64-82)
SearchFound(resp) == resp.status = 200 /\ resp.body = "features"

\* answers of GET <downloadLink> and of GET <Location> (lines 94, 113):
\* status code, presence of a Location header, "status" field of a JSON body
\* ("none": the body is not JSON with a status field), and the time
\* coordinate of a data payload: "interval" when it lies within the requested
\* interval, "overlap" when the product (the first feature, line 86) also
\* holds the last day of the preceding interval, "none" when there is no data
DownloadResponses ==
    { [status |-> 200, location |-> FALSE, body_status |-> "none", time |-> "interval"],
      [status |-> 200, location |-> FALSE, body_status |-> "none", time |-> "overlap"],
      [status |-> 200, location |-> TRUE,  body_status |-> "none", time |-> "interval"],
      [status |-> 202, location |-> TRUE,  body_status |-> "queued", time |-> "none"],
      [status |-> 202, location |-> TRUE,  body_status |-> "running", time |-> "none"],
      [status |-> 202, location |-> FALSE, body_status |-> "queued", time |-> "none"],
      [status |-> 204, location |-> FALSE, body_status |-> "none", time |-> "none"],
      [status |-> 404, location |-> FALSE, body_status |-> "none", time |-> "none"] }

\* results of auth.get_token() (line 28): a token, or None
AccessTokens == {"token", "None"}

\* response.raise_for_status() raises (lines 100, 117)
RaisesForStatus(resp) == resp.status >= 400

\* open(filename, 'wb') (line 127): the file exists, empty, from now on
OpenedFile(resp, r) ==
    [exists |-> TRUE, complete |-> FALSE, payload |-> resp.status = HTTP_SUCCESS_CODE,
     time |-> resp.time, run |-> r]

\* the with block of lines 126-130 left after the last chunk
ClosedFile(file) == [file EXCEPT !.complete = TRUE]

(***************************************************************************)
(* retrieve_data: one submitted task per interval.                         *)
(***************************************************************************)
IdleTask == [pc |-> "idle", outcome |-> "none", response |-> NoResponse, old_status |-> ""]

Running(i) == task[i].pc \in {"resolve", "poll", "stream"}
Terminated(i) == task[i].pc = "done"

\* the queued task a free worker thread takes next (FIFO work queue)
NextQueued ==
    {i \in Intervals :
        /\ task[i].pc = "queued"
        /\ \A j \in Intervals : task[j].pc = "queued" => i <= j}

\* retrieve_data returns or raises: its locals are gone, the future holds the result
Finish(i, result) ==
    /\ task' = [task EXCEPT ![i] = [IdleTask EXCEPT !.pc = "done", !.outcome = result]]
    /\ completed' = Append(completed, i)

\* the output_file argument of the task of interval i (lines 154, 156)
TaskFile(i) == PartialPath(OUTPUT_DIR, date_ranges[i][1])

\* lines 115-127 for the response the loop ended with: raise, or open the file
\* (old_status is not read after the loop)
CheckAndOpen(i, resp) ==
    IF RaisesForStatus(resp)
    THEN /\ Finish(i, "HTTPError")
         /\ UNCHANGED files
    ELSE /\ task' = [task EXCEPT ![i].pc = "stream", ![i].response = resp,
                                 ![i].old_status = ""]
         /\ files' = [files EXCEPT ![TaskFile(i)] = OpenedFile(resp, run)]
         /\ UNCHANGED completed

\* a thread of ThreadPoolExecutor(max_workers=workers) is free (line 151)
WorkerAlwaysFree == TRUE

WorkerFree == Cardinality({j \in Intervals : Running(j)}) < WORKERS

\* lines 29-32: what is printed about the token; retrieve_data goes on either way
TokenLine(access_token) ==
    IF access_token # "None" THEN <<"access token", "obtained">>
    ELSE <<"access token", "failed">>

\* line 61, printed right before the search request of line 62 is sent
SearchLine == <<"search request", "sending">>

\* line 110
StatusLine(order_status) == <<"order status", order_status>>

\* a worker thread takes the task and runs lines 26-82: token, search request
\* (auth_headers decides no later branch of retrieve_data)
Search(i) ==
    /\ i \in NextQueued
    /\ WorkerFree
    /\ \E access_token \in AccessTokens :
          printed' = <<TokenLine(access_token), SearchLine>>
    /\ \E resp \in SearchResponses :
          IF SearchFound(resp)
          THEN /\ task' = [task EXCEPT ![i].pc = "resolve"]
               /\ UNCHANGED completed
          ELSE Finish(i, "returned")
    /\ UNCHANGED <<run, mpc, date_ranges, output_files, submit_i, futures, exc, files, files0, merged>>
    /\ UNCHANGED gvars

\* lines 86-127: request the download link, then the first test of the loop
Resolve(i) ==
    /\ task[i].pc = "resolve"
    /\ \E resp \in DownloadResponses :
          IF RaisesForStatus(resp)
          THEN /\ Finish(i, "HTTPError")
               /\ UNCHANGED files
          ELSE IF resp.status # HTTP_SUCCESS_CODE /\ resp.location
          THEN /\ task' = [task EXCEPT ![i].pc = "poll", ![i].response = resp]
               /\ UNCHANGED <<completed, files>>
          ELSE CheckAndOpen(i, resp)
    /\ UNCHANGED <<run, mpc, date_ranges, output_files, submit_i, futures, exc, files0, merged>>
    /\ printed' = <<>>
    /\ UNCHANGED gvars

\* the test of line 109: the status is printed and remembered
StatusAlwaysPrinted(old_status, resp) == TRUE

StatusChanged(old_status, resp) == old_status # resp.body_status

\* one iteration of the while loop of lines 108-113, and lines 115-127 when
\* the new response carries no Location header
Poll(i) ==
    /\ task[i].pc = "poll"
    /\ IF task[i].response.body_status = "none"
       THEN /\ Finish(i, "JSONError")
            /\ printed' = <<>>
            /\ UNCHANGED files
       ELSE /\ printed' = IF StatusChanged(task[i].old_status, task[i].response)
                          THEN <<StatusLine(task[i].response.body_status)>>
                          ELSE <<>>
            /\ \E resp \in DownloadResponses :
                  IF resp.location
                  THEN /\ task' = [task EXCEPT
                                      ![i].response = resp,
                                      ![i].old_status =
                                          IF StatusChanged(task[i].old_status, task[i].response)
                                          THEN task[i].response.body_status
                                          ELSE task[i].old_status]
                       /\ UNCHANGED <<completed, files>>
                  ELSE CheckAndOpen(i, resp)
    /\ UNCHANGED <<run, mpc, date_ranges, output_files, submit_i, futures, exc, files0, merged>>
    /\ UNCHANGED gvars

\* lines 128-131: the last chunk is written and the file closed
StreamDone(i) ==
    /\ task[i].pc = "stream"
    /\ files' = [files EXCEPT ![TaskFile(i)] = ClosedFile(files[TaskFile(i)])]
    /\ Finish(i, "ok")
    /\ UNCHANGED <<run, mpc, date_ranges, output_files, submit_i, futures, exc, files0, merged>>
    /\ printed' = <<>>
    /\ UNCHANGED gvars

\* lines 128-130: reading a chunk or writing it raises
StreamFail(i) ==
    /\ task[i].pc = "stream"
    /\ Finish(i, "IOError")
    /\ UNCHANGED <<run, mpc, date_ranges, output_files, submit_i, futures, exc, files, files0, merged>>
    /\ printed' = <<>>
    /\ UNCHANGED gvars

(***************************************************************************)
(* retrieve_missing_data, merge_netcdf_files_xarray and download_dataset:  *)
(* the main thread.                                                        *)
(***************************************************************************)
Range(seq) == {seq[n] : n \in 1..Len(seq)}

\* output_files as built by lines 143-146: one path per interval, in order
OutputFilesOfMissing(ranges, output_dir, fs) ==
    LET RECURSIVE Build(_)
        Build(n) ==
            IF n = 0 THEN <<>>
            ELSE IF Exists(fs, PartialPath(output_dir, ranges[n][1]))
                 THEN Build(n - 1)
                 ELSE Append(Build(n - 1), PartialPath(output_dir, ranges[n][1]))
    IN  Build(Len(ranges))

OutputFiles(ranges, output_dir, fs) ==
    [n \in 1..Len(ranges) |-> PartialPath(output_dir, ranges[n][1])]

\* the test of line 155: the interval is submitted to the pool
SubmitAlways(fs, path) == TRUE

NeedsDownload(fs, path) == ~Exists(fs, path)

\* leaving the with block (line 151): shutdown(wait=True) returns
ShutdownNoWait == TRUE

ShutdownReturns == \A i \in Range(futures) : Terminated(i)

\* xr.open_dataset succeeds on every input (line 136)
OpensWhatExists(paths, fs) == TRUE

OpensAll(paths, fs) == \A n \in 1..Len(paths) : Exists(fs, paths[n])

\* an input that xr.open_dataset may or may not accept: truncated, or not
\* the data payload
Damaged(file) == ~file.complete \/ ~file.payload

PipelineIdle ==
    /\ run = 0
    /\ mpc = "idle"
    /\ date_ranges = <<>>
    /\ output_files = <<>>
    /\ submit_i = 1
    /\ futures = <<>>
    /\ task = [i \in Intervals |-> IdleTask]
    /\ completed = <<>>
    /\ exc = NoException
    /\ files = [p \in ScriptPaths |-> Absent]
    /\ files0 = [p \in ScriptPaths |-> Absent]
    /\ merged = NoMerged
    /\ printed = <<>>

\* the script starts: download_dataset lines 204-211 and
\* retrieve_missing_data lines 143-152
StartRun ==
    /\ mpc \in {"idle", "done", "failed"}
    /\ run < MaxRuns
    /\ run' = run + 1
    /\ date_ranges' = generate_date_ranges(START_YEAR, END_YEAR)
    /\ output_files' = OutputFiles(date_ranges', OUTPUT_DIR, files)
    /\ submit_i' = 1
    /\ futures' = <<>>
    /\ task' = [i \in Intervals |-> IdleTask]
    /\ completed' = <<>>
    /\ exc' = NoException
    /\ files0' = files
    /\ mpc' = "submit"
    /\ printed' = <<>>
    /\ UNCHANGED <<files, merged>>
    /\ UNCHANGED gvars

\* one iteration of the loop of lines 153-156
Submit ==
    /\ mpc = "submit"
    /\ submit_i <= Len(date_ranges)
    /\ IF NeedsDownload(files, PartialPath(OUTPUT_DIR, date_ranges[submit_i][1]))
       THEN /\ futures' = Append(futures, submit_i)
            /\ task' = [task EXCEPT ![submit_i].pc = "queued"]
       ELSE UNCHANGED <<futures, task>>
    /\ submit_i' = submit_i + 1
    /\ UNCHANGED <<run, mpc, date_ranges, output_files, completed, exc, files, files0, merged>>
    /\ printed' = <<>>
    /\ UNCHANGED gvars

\* the loop of lines 153-156 ends: as_completed(futures) is entered
SubmitEnd ==
    /\ mpc = "submit"
    /\ submit_i > Len(date_ranges)
    /\ mpc' = "gather"
    /\ UNCHANGED <<run, date_ranges, output_files, submit_i, futures, task, completed, exc,
                   files, files0, merged>>
    /\ printed' = <<>>
    /\ UNCHANGED gvars

\* lines 157-158: as_completed yields a terminated task whose result() raises
\* (the results of the tasks yielded before it raised nothing)
GatherRaise(i) ==
    /\ mpc = "gather"
    /\ i \in Range(futures)
    /\ Terminated(i)
    /\ task[i].outcome \notin {"ok", "returned"}
    /\ exc' = [error |-> task[i].outcome, interval |-> i]
    /\ mpc' = "shutdown"
    /\ UNCHANGED <<run, date_ranges, output_files, submit_i, futures, task, completed,
                   files, files0, merged>>
    /\ printed' = <<>>
    /\ UNCHANGED gvars

\* lines 157-158: every future was yielded and no result() raised
GatherEnd ==
    /\ mpc = "gather"
    /\ \A i \in Range(futures) : Terminated(i) /\ task[i].outcome \in {"ok", "returned"}
    /\ mpc' = "shutdown"
    /\ UNCHANGED <<run, date_ranges, output_files, submit_i, futures, task, completed, exc,
                   files, files0, merged>>
    /\ printed' = <<>>
    /\ UNCHANGED gvars

\* where download_dataset goes on after line 211: to the merge of line 217
\* when retrieve_missing_data returned, out of the script when it raised
AfterRetrievalAlwaysMerge(e) == "merge"

AfterRetrieval(e) == IF e = NoException THEN "merge" ELSE "failed"

\* the with block of line 151 is left; line 160 returns, or the exception
\* leaves retrieve_missing_data and download_dataset (line 211)
Shutdown ==
    /\ mpc = "shutdown"
    /\ ShutdownReturns
    /\ mpc' = AfterRetrieval(exc)
    /\ UNCHANGED <<run, date_ranges, output_files, submit_i, futures, task, completed, exc,
                   files, files0, merged>>
    /\ printed' = <<>>
    /\ UNCHANGED gvars

\* merge_netcdf_files_xarray lines 135-138: open every input, concatenate,
\* start writing the merged file
MergeOpen ==
    /\ mpc = "merge"
    /\ IF ~OpensAll(output_files, files)
       THEN /\ mpc' = "failed"
            /\ exc' = [error |-> "FileNotFoundError", interval |-> 0]
            /\ UNCHANGED merged
       ELSE \/ /\ \E n \in 1..Len(output_files) :
                     Exists(files, output_files[n]) /\ Damaged(files[output_files[n]])
               /\ mpc' = "failed"
               /\ exc' = [error |-> "OSError", interval |-> 0]
               /\ UNCHANGED merged
            \/ /\ mpc' = "writing"
               /\ merged' = [exists |-> TRUE, complete |-> FALSE, inputs |-> output_files, run |-> run]
               /\ UNCHANGED exc
    /\ UNCHANGED <<run, date_ranges, output_files, submit_i, futures, task, completed,
                   files, files0>>
    /\ printed' = <<>>
    /\ UNCHANGED gvars

\* line 138 returns: the merged file is written; lines 218-221
MergeDone ==
    /\ mpc = "writing"
    /\ merged' = [merged EXCEPT !.complete = TRUE]
    /\ mpc' = "done"
    /\ UNCHANGED <<run, date_ranges, output_files, submit_i, futures, task, completed, exc,
                   files, files0>>
    /\ printed' = <<>>
    /\ UNCHANGED gvars

\* line 138 raises while writing
MergeFail ==
    /\ mpc = "writing"
    /\ mpc' = "failed"
    /\ exc' = [error |-> "OSError", interval |-> 0]
    /\ UNCHANGED <<run, date_ranges, output_files, submit_i, futures, task, completed,
                   files, files0, merged>>
    /\ printed' = <<>>
    /\ UNCHANGED gvars

Init ==
    /\ g_start_year = START_YEAR
    /\ g_end_year = END_YEAR
    /\ g_cursor = Date(START_YEAR, 1, 1)
    /\ g_ranges = <<>>
    /\ g_pc = "loop"
    /\ PipelineIdle

Next ==
    \/ StartRun
    \/ Submit
    \/ SubmitEnd
    \/ \E i \in Intervals : Search(i)
    \/ \E i \in Intervals : Resolve(i)
    \/ \E i \in Intervals : Poll(i)
    \/ \E i \in Intervals : StreamDone(i)
    \/ \E i \in Intervals : StreamFail(i)
    \/ \E i \in Intervals : GatherRaise(i)
    \/ GatherEnd
    \/ Shutdown
    \/ MergeOpen
    \/ MergeDone
    \/ MergeFail

Spec == Init /\ [][Next]_vars

\* generate_date_ranges entered with any pair of years (lines 163-168)
GenInit ==
    /\ g_start_year \in Years
    /\ g_end_year \in Years
    /\ g_cursor = Date(g_start_year, 1, 1)
    /\ g_ranges = <<>>
    /\ g_pc = "loop"
    /\ PipelineIdle

\* one iteration of the while loop (lines 170-198)
GenMonth ==
    /\ g_pc = "loop"
    /\ DateLeq(g_cursor, RangeEnd(g_end_year))
    /\ g_ranges' = g_ranges \o MonthParts(g_cursor)
    /\ g_cursor' = NextMonth(g_cursor)
    /\ UNCHANGED <<g_start_year, g_end_year, g_pc>>
    /\ UNCHANGED pvars

\* loop exit and return (lines 170, 200-201)
GenReturn ==
    /\ g_pc = "loop"
    /\ ~DateLeq(g_cursor, RangeEnd(g_end_year))
    /\ g_pc' = "returned"
    /\ UNCHANGED <<g_start_year, g_end_year, g_cursor, g_ranges>>
    /\ UNCHANGED pvars

GenNext == GenMonth \/ GenReturn

SpecRanges == GenInit /\ [][GenNext]_vars

(***************************************************************************)
(* Properties of generate_date_ranges, checked under SpecRanges.           *)
(***************************************************************************)
\* value of a sequence of decimal digits
RECURSIVE DigitsValue(_)
DigitsValue(ds) ==
    IF ds = <<>> THEN 0
    ELSE 10 * DigitsValue(SubSeq(ds, 1, Len(ds) - 1)) + ds[Len(ds)]

\* the calendar day a "%Y-%m-%d" string denotes, as a day number
DayNumber(str) ==
    LET n == Len(str)
    IN  ToOrdinal(Date(DigitsValue(SubSeq(str, 1, n - 6)),
                       10 * str[n - 4] + str[n - 3],
                       10 * str[n - 1] + str[n]))

IntervalLo(ranges, i) == DayNumber(ranges[i][1])
IntervalHi(ranges, i) == DayNumber(ranges[i][2])

\* the intervals of `ranges` that contain day number d
Containing(ranges, d) ==
    {i \in 1..Len(ranges) : IntervalLo(ranges, i) <= d /\ d <= IntervalHi(ranges, i)}

VisitedYear(k) == g_start_year + (k \div 12)
VisitedMonth(k) == (k % 12) + 1

\* C2: every visited month contributes exactly three consecutive intervals;
\* the first two hold floor(daysInMonth/3) days each, the third runs from the
\* day after the second to the last day of the month (a 31-day month gives
\* days 1-10, 11-20, 21-31).
C2_ThreePartsPerMonth ==
    /\ Len(g_ranges) % 3 = 0
    /\ \A k \in 0..((Len(g_ranges) \div 3) - 1) :
          LET y    == VisitedYear(k)
              m    == VisitedMonth(k)
              dim  == DaysInMonth(y, m)
              day1 == ToOrdinal(Date(y, m, 1))
              p    == dim \div 3
              b    == 3 * k
          IN  /\ IntervalLo(g_ranges, b + 1) = day1
              /\ IntervalHi(g_ranges, b + 1) = day1 + p - 1
              /\ IntervalLo(g_ranges, b + 2) = day1 + p
              /\ IntervalHi(g_ranges, b + 2) = day1 + 2 * p - 1
              /\ IntervalLo(g_ranges, b + 3) = day1 + 2 * p
              /\ IntervalHi(g_ranges, b + 3) = day1 + dim - 1
              /\ dim = 31 =>
                    /\ g_ranges[b + 1] = <<Strftime(Date(y, m, 1)), Strftime(Date(y, m, 10))>>
                    /\ g_ranges[b + 2] = <<Strftime(Date(y, m, 11)), Strftime(Date(y, m, 20))>>
                    /\ g_ranges[b + 3] = <<Strftime(Date(y, m, 21)), Strftime(Date(y, m, 31))>>
    /\ g_pc = "loop" => g_cursor = Date(VisitedYear(Len(g_ranges) \div 3),
                                        VisitedMonth(Len(g_ranges) \div 3), 1)

\* months of 28, 29, 30 and 31 days have all been visited
C2_Witness ==
    \A dim \in {28, 29, 30, 31} :
        \E k \in 0..((Len(g_ranges) \div 3) - 1) :
            DaysInMonth(VisitedYear(k), VisitedMonth(k)) = dim

(***************************************************************************)
(* Properties of the pipeline, checked under Spec.                         *)
(***************************************************************************)
\* the artifact path of interval i: <output_dir>/<start_date>.nc
ArtifactPath(i) == <<OUTPUT_DIR, ScriptRanges[i][1] \o <<".nc">> >>

\* every artifact path of the partition, in partition order
PartitionPaths == [n \in Intervals |-> ArtifactPath(n)]

Dispatched == Range(futures)

\* retrieve_missing_data has returned to download_dataset, or has let an
\* exception leave it
RetrievalLeft == mpc \in {"merge", "writing", "done", "failed"}

\* C3: retrieve_missing_data neither returns nor propagates a failure while a
\* dispatched task is still queued or running.
C3_LeavesOnlyAfterAllTasksEnd ==
    RetrievalLeft => \A i \in Dispatched : task[i].pc = "done"

\* the task of the second of three dispatched intervals failed first, the
\* other two then ran to success, and only then the failure was propagated
C3_Witness ==
    /\ mpc = "failed"
    /\ futures = <<1, 2, 3>>
    /\ exc.interval = 2
    /\ completed[1] = 2
    /\ task[1].outcome = "ok"
    /\ task[3].outcome = "ok"

\* interval i was checked by the submit loop of the current run and not submitted
Skipped(i) == run >= 1 /\ i < submit_i /\ i \notin Dispatched

\* C4: the submit loop dispatches an interval exactly when its artifact path
\* does not exist at the check; an interval found present is never fetched in
\* that run and its file stays as it was when the run started.
C4_DispatchIffAbsent ==
    [][ /\ (mpc = "submit" /\ submit_i' = submit_i + 1) =>
              ((submit_i \in Range(futures')) <=> ~files[ArtifactPath(submit_i)].exists)
        /\ \A i \in Intervals :
              (run' >= 1 /\ i < submit_i' /\ i \notin Range(futures')) =>
                  /\ files0'[ArtifactPath(i)].exists
                  /\ task'[i].pc = "idle"
                  /\ files'[ArtifactPath(i)] = files0'[ArtifactPath(i)]
      ]_vars

\* a run that skipped one interval, fetched another and ended
C4_Witness ==
    /\ mpc \in {"done", "failed"}
    /\ \E i \in Intervals : Skipped(i) /\ ~files[ArtifactPath(i)].complete
    /\ \E i \in Dispatched : task[i].outcome = "ok"

\* C5 as stated: a second run on the same directory submits no task.
C5_SecondRunSubmitsNothing ==
    run >= 2 => futures = <<>>

\* C5 amended: a later run submits no task for an interval whose artifact
\* existed when that run started, hence none at all when every artifact
\* existed, as is the case once an earlier run has written the merged file.
C5_LaterRunSubmitsOnlyAbsent ==
    run >= 2 =>
        /\ \A i \in Dispatched : ~files0[ArtifactPath(i)].exists
        /\ (merged.exists /\ merged.run < run) => futures = <<>>

\* a second run that found every artifact, submitted nothing and merged
C5_Witness ==
    /\ run = 2
    /\ mpc = "done"
    /\ futures = <<>>
    /\ \A i \in Intervals : files0[ArtifactPath(i)].exists

\* C6: the list retrieve_missing_data builds, returns and hands to the merger
\* holds one path per interval of the partition, pre-existing artifacts
\* included, in partition order, whatever the order of completion.
C6_PathsInPartitionOrder ==
    /\ run >= 1 => output_files = PartitionPaths
    /\ (merged.exists /\ merged.run = run) => merged.inputs = PartitionPaths

\* the list was returned in a run with a pre-existing artifact whose tasks
\* completed in the reverse of partition order
C6_Witness ==
    /\ mpc = "merge"
    /\ files0[ArtifactPath(1)].exists
    /\ futures = <<2, 3>>
    /\ completed = <<3, 2>>

\* C7: a file exists at an artifact path only if its download streamed the
\* complete payload.
C7_ArtifactExistsOnlyComplete ==
    \A p \in ScriptPaths : files[p].exists => (files[p].complete /\ files[p].payload)

\* C8: the merged file is written only in a run in which every interval of
\* the partition has an artifact after the retrieval phase.
C8_NoMergeOverIncompleteSet ==
    /\ mpc \in {"writing", "done"} => \A i \in Intervals : files[ArtifactPath(i)].exists
    /\ (merged.exists /\ merged.run = run) =>
          \A i \in Intervals : files[ArtifactPath(i)].exists

\* retrieval returned normally although an interval has no artifact, and the
\* merge was aborted without writing
C8_Witness ==
    /\ mpc = "failed"
    /\ exc.error = "FileNotFoundError"
    /\ \E i \in Intervals : ~files[ArtifactPath(i)].exists
    /\ ~merged.exists

\* C9: a task whose order was answered 202 and whose follow-up never became
\* resolvable (the last answer it received is still a 202) ends with a
\* timeout failure.
C9_UnresolvedOrderTimesOut ==
    [][ \A i \in Intervals :
          (/\ task[i].pc = "stream"
           /\ task[i].response.status = HTTP_ACCEPTED_CODE
           /\ task'[i].pc = "done") => task'[i].outcome = "PollTimeoutError"
      ]_vars

\* C10: in the resolve step a 200 answer starts streaming without polling, a
\* 202 answer is polled, and every other status fails the task without
\* polling and without writing a file.
C10_ResolveStatusDecides ==
    [][ \A i \in Intervals :
          (task[i].pc = "resolve" /\ task'[i].pc # "resolve") =>
              /\ task'[i].pc = "stream" => task'[i].response.status = HTTP_SUCCESS_CODE
              /\ task'[i].pc = "poll" => task'[i].response.status = HTTP_ACCEPTED_CODE
              /\ task'[i].pc = "done" =>
                    (task'[i].outcome = "HTTPError" /\ files' = files)
      ]_vars

\* the dispatched tasks whose retrieve_data call raised
Raised == {i \in Dispatched : task[i].pc = "done" /\ task[i].outcome \notin {"ok", "returned"}}

\* C11: a task whose search step failed (bad status, empty or invalid body,
\* no features) ends as a failure that retrieve_missing_data propagates; the
\* call never returns normally with such an interval counted as completed.
C11_SearchFailurePropagates ==
    mpc \in {"merge", "writing", "done"} =>
        \A i \in Dispatched : task[i].outcome # "returned"

\* C13: the failure retrieve_missing_data propagates identifies every failed
\* interval of the run, not only one of them.
C13_FailureNamesEveryFailedInterval ==
    (mpc = "failed" /\ exc.interval # 0) => Raised = {exc.interval}

\* C14: at most WORKERS retrieval tasks execute at a time, and each pending
\* interval is executed by exactly one task, at most once per run.
C14_BoundedPoolOneTaskPerInterval ==
    /\ Cardinality({i \in Intervals : task[i].pc \in {"resolve", "poll", "stream"}}) <= WORKERS
    /\ \A m, n \in 1..Len(futures) : m # n => futures[m] # futures[n]
    /\ \A m, n \in 1..Len(completed) : m # n => completed[m] # completed[n]
    /\ Range(completed) = {i \in Intervals : task[i].pc = "done"}
    /\ \A i \in Intervals : task[i].pc # "idle" <=> i \in Dispatched
    /\ \A i \in Intervals :
          (run >= 1 /\ i < submit_i /\ ~files0[ArtifactPath(i)].exists) => i \in Dispatched

\* the pool is full: two tasks execute and the third waits in the queue
C14_Witness ==
    /\ Cardinality({i \in Intervals : task[i].pc \in {"resolve", "poll", "stream"}}) = WORKERS
    /\ \E i \in Intervals : task[i].pc = "queued"

\* C15: the tasks dispatched in one run own pairwise distinct file paths, so
\* no file is written by two tasks, under every interleaving.
C15_TaskPathsDisjoint ==
    /\ \A i, j \in Dispatched : i # j => TaskFile(i) # TaskFile(j)
    /\ \A i \in Intervals :
          task[i].pc = "stream" =>
              /\ files[TaskFile(i)].exists
              /\ ~files[TaskFile(i)].complete
              /\ files[TaskFile(i)].run = run

\* two tasks are writing their files at the same time
C15_Witness ==
    \E i, j \in Dispatched :
        i # j /\ task[i].pc = "stream" /\ task[j].pc = "stream"

\* C17: no partial file is ever visible at the merged output path: the merged
\* file appears there only complete.
C17_MergedVisibleOnlyComplete ==
    merged.exists => merged.complete

\* C18: bytes are written to an artifact path only from a response with
\* status 200, never from a 202 response.
C18_OnlyPayloadIsStreamed ==
    \A i \in Intervals :
        task[i].pc = "stream" => task[i].response.status = HTTP_SUCCESS_CODE

\* C19: the merge starts only after retrieve_missing_data returned normally;
\* once the retrieval phase has propagated a failure the merged file is not
\* written in that run and no artifact file changes any more.
C19_MergeOnlyAfterNormalReturn ==
    [][ /\ (mpc # "merge" /\ mpc' = "merge") =>
              /\ mpc = "shutdown"
              /\ exc = NoException
              /\ \A i \in Range(futures) : task[i].pc = "done"
        /\ (merged' # merged) => (mpc \in {"merge", "writing"} /\ Raised = {})
        /\ (mpc = "failed" /\ exc.interval # 0) => (files' = files /\ merged' = merged)
        /\ (mpc' = "failed" /\ exc'.interval # 0) => (files' = files /\ merged' = merged)
      ]_vars

\* the retrieval phase propagated a failure while another interval's artifact,
\* written in the same run, stays on disk
C19_Witness ==
    /\ mpc = "failed"
    /\ exc.interval # 0
    /\ merged.run # run
    /\ \E i \in Dispatched : files[ArtifactPath(i)].exists /\ files[ArtifactPath(i)].run = run

\* C12: a task whose get_token returned None sends no request: the step that
\* reports the missing token does not go on to the search request.
C12_NoRequestWithoutToken ==
    [][ (\E n \in 1..Len(printed') : printed'[n] = <<"access token", "failed">>) =>
            /\ \A n \in 1..Len(printed') : printed'[n] # <<"search request", "sending">>
            /\ \A i \in Intervals : task[i].pc = "queued" => task'[i].pc # "resolve"
      ]_vars

\* C16: the merged file is not written when the time coordinate of an input
\* does not start after the end of the previous input's.
C16_MergeRejectsOverlap ==
    (merged.exists /\ merged.run = run) =>
        \A n \in 2..Len(merged.inputs) : files[merged.inputs[n]].time # "overlap"

\* C20: a poll prints the order status exactly when it differs from the last
\* printed one (the first status is printed once, an unchanged status is not
\* printed again), and a changed status does not fail the task: the task
\* ends in that step only by the HTTP status of the follow-up answer.
C20_StatusLoggedOnChangeOnly ==
    [][ /\ \A i \in Intervals :
              (/\ task[i].pc = "poll"
               /\ task[i].response.body_status # "none"
               /\ task'[i] # task[i]) =>
                  /\ printed' = IF task[i].old_status # task[i].response.body_status
                                THEN << <<"order status", task[i].response.body_status>> >>
                                ELSE <<>>
                  /\ task'[i].pc = "poll" =>
                        task'[i].old_status = task[i].response.body_status
                  /\ task'[i].pc = "done" => task'[i].outcome = "HTTPError"
        /\ \A n \in 1..Len(printed') :
              printed'[n][1] = "order status" =>
                  \E i \in Intervals :
                      /\ task[i].pc = "poll"
                      /\ task[i].old_status # task[i].response.body_status
                      /\ printed'[n][2] = task[i].response.body_status
                      /\ \A j \in Intervals \ {i} : task'[j] = task[j]
      ]_vars

\* a task has just printed a changed status ("running" after "queued" or
\* first) and holds an answer whose status differs again
C20_Witness ==
    /\ printed = << <<"order status", "running">> >>
    /\ \E i \in Intervals :
          /\ task[i].pc = "poll"
          /\ task[i].old_status = "running"
          /\ task[i].response.body_status = "queued"

====
